---- MODULE Spec2Model ----
(***************************************************************************)
(* A model of src/app.py, the Streamlit dashboard "AI-Powered Policy       *)
(* Impact Analyzer".  The script is re-executed top to bottom on every     *)
(* user interaction; one execution is a "run".  The three CSV loaders are  *)
(* memoized with st.cache_data, everything else is local to a run.         *)
(*                                                                         *)
(* Cells are strings.  The cell values used are non-numeric, so pandas     *)
(* keeps every column as text and no dtype conversion takes place.         *)
(***************************************************************************)
EXTENDS Integers, Sequences, FiniteSets, TLC

\* ------------------------------------------------------------------ values

\* A missing value: an empty CSV field as pandas reads it.
NaN == "<NaN>"
\* Python's None: what st.selectbox returns when it has no options.
None == "<None>"
\* The in-band sentinel of the Expenditure and Income Tax dropdowns.
ShowFullTable == "Show Full Table"
\* The default of result.get("answer", ...).
NoAnswerFound == "No answer found."

\* The number of data lines of a file in the table family of SpecTables.
MaxRows == 3

Kinds == {"budget", "expenditure", "income_tax"}
DatasetTypes == <<"Budget Data", "Expenditure Data", "Income Tax Data">>
ChartTypes == <<"Bar Chart", "Line Chart", "Pie Chart">>

\* pd.DataFrame(): no columns, no rows.
EmptyDataFrame == [columns |-> <<>>, rows |-> <<>>]

\* ------------------------------------------------------------------ pandas

Max(a, b) == IF a >= b THEN a ELSE b

\* A line shorter than the expected width gets missing values appended.
Pad(line, w) == [i \in 1..w |-> IF i <= Len(line) THEN line[i] ELSE NaN]

\* skip_blank_lines: a line that is one empty field is no line at all.
NonBlank(lines) == SelectSeq(lines, LAMBDA l : l # <<NaN>>)

\* The tokenizer's expected field count: the header's, or the first data
\* line's when that one is longer (it is never checked against the header).
Width(file) ==
    LET ls == NonBlank(file.lines)
    IN  IF ls = <<>> THEN Len(file.header) ELSE Max(Len(file.header), Len(ls[1]))

\* The bad lines: those after the first data line with too many fields.
BadLines(file) ==
    LET ls == NonBlank(file.lines)
    IN  {i \in 2..Len(ls) : Len(ls[i]) > Width(file)}

\* read_csv raises: no such file, an empty file, or (unless bad lines are
\* skipped) a bad line.
read_csv_raises(file, on_bad_lines) ==
    \/ ~file.exists
    \/ file.header = <<>>
    \/ on_bad_lines = "error" /\ BadLines(file) # {}

\* The table read_csv returns.  Bad lines are dropped, short lines padded; when
\* the first data line is longer than the header its leading fields become the
\* index and the header names the trailing fields.
read_csv(file, on_bad_lines) ==
    LET ls   == NonBlank(file.lines)
        w    == Width(file)
        n    == Len(file.header)
        kept == IF ls = <<>> THEN <<>>
                ELSE <<ls[1]>> \o SelectSeq(Tail(ls), LAMBDA l : Len(l) <= w)
    IN  [columns |-> file.header,
         rows    |-> [i \in 1..Len(kept) |-> SubSeq(Pad(kept[i], w), w - n + 1, w)]]

HasColumn(table, name) == \E j \in 1..Len(table.columns) : table.columns[j] = name
ColIndex(table, name) == CHOOSE j \in 1..Len(table.columns) : table.columns[j] = name

\* series == value, elementwise: a missing cell equals nothing, and nothing
\* equals None.
CellEq(cell, value) == cell # NaN /\ value # None /\ cell = value

\* table[table[col] == value]: boolean-mask row selection.
MaskRows(table, j, value) ==
    [columns |-> table.columns,
     rows    |-> SelectSeq(table.rows, LAMBDA r : CellEq(r[j], value))]

\* series.dropna().unique(): the distinct non-missing values, in order of
\* first appearance.
RECURSIVE UniqueOf(_, _)
UniqueOf(cells, seen) ==
    IF cells = <<>> THEN <<>>
    ELSE IF Head(cells) = NaN \/ Head(cells) \in seen
         THEN UniqueOf(Tail(cells), seen)
         ELSE <<Head(cells)>> \o UniqueOf(Tail(cells), seen \cup {Head(cells)})

Column(table, j) == [i \in 1..Len(table.rows) |-> table.rows[i][j]]
dropna_unique(table, j) == UniqueOf(Column(table, j), {})

\* pd.concat(tables, ignore_index=True): the union of the columns in order of
\* first appearance, each table's rows in turn, missing where a table lacks
\* the column.
AppendNew(cols, more) ==
    cols \o SelectSeq(more, LAMBDA c : ~ \E j \in 1..Len(cols) : cols[j] = c)

Reindex(table, cols) ==
    [i \in 1..Len(table.rows) |->
        [j \in 1..Len(cols) |->
            IF HasColumn(table, cols[j])
            THEN table.rows[i][ColIndex(table, cols[j])]
            ELSE NaN]]

pd_concat(t1, t2, t3) ==
    LET cols == AppendNew(AppendNew(t1.columns, t2.columns), t3.columns)
    IN  [columns |-> cols,
         rows    |-> Reindex(t1, cols) \o Reindex(t2, cols) \o Reindex(t3, cols)]

\* DataFrame.to_string(index=False), as lines of cells (the padding between
\* cells is left out): the header line and one line per row, a missing value
\* printed as the text NaN; a frame without rows prints its description.
CellText(cell) == IF cell = NaN THEN "NaN" ELSE cell

to_string(table) ==
    IF table.rows = <<>>
    THEN << <<"Empty DataFrame">>, <<"Columns:">> \o table.columns, <<"Index:">> >>
    ELSE <<table.columns>> \o
         [i \in 1..Len(table.rows) |->
            [j \in 1..Len(table.columns) |-> CellText(table.rows[i][j])]]

\* ------------------------------------------------------------------- files

\* A file on disk: its header fields and its data lines, each a sequence of
\* fields (NaN is an empty field).
File(header, lines) == [exists |-> TRUE, header |-> header, lines |-> lines]
Missing == [exists |-> FALSE, header |-> <<>>, lines |-> <<>>]

\* Combined_Financial_Data.csv: the three-row example; without a "Source"
\* column; absent.
BudgetFile == File(<<"Source", "Amount">>, << <<"A", "x">>, <<"B", "y">>, <<"A", "y">> >>)
BudgetNoSource == File(<<"Name", "Amount">>, << <<"A", "x">> >>)

\* Expenditure.csv: a first column holding the sentinel's text as data; absent.
ExpenditureFile == File(<<"State", "Amount">>, << <<ShowFullTable, "x">>, <<"B", "y">> >>)

\* Income Tax.csv: with a short line and a long line among good ones; absent.
IncomeTaxFile ==
    File(<<"Category", "Tax">>,
         << <<"A", "x">>, <<"B">>, <<"A", "y", "x">>, <<"B", "y">> >>)

FilesOf(k) ==
    CASE k = "budget"      -> {BudgetFile, BudgetNoSource, Missing}
      [] k = "expenditure" -> {ExpenditureFile, Missing}
      [] k = "income_tax"  -> {IncomeTaxFile, Missing}

\* The table family: every file of at most MaxRows well-formed lines.
HeaderOf(k) ==
    CASE k = "budget"      -> <<"Source", "Amount">>
      [] k = "expenditure" -> <<"State", "Amount">>
      [] k = "income_tax"  -> <<"Category", "Tax">>

TableLines == { <<"A", "x">>, <<"B", "y">>, <<NaN, "x">>, <<ShowFullTable, "y">> }

SeqsUpTo(S, n) == UNION { [1..m -> S] : m \in 0..n }

TableFilesOf(k) == { File(HeaderOf(k), ls) : ls \in SeqsUpTo(TableLines, MaxRows) }

\* The loader family: income-tax files of at most MaxRows lines, good, short
\* or long.
LoaderLines == { <<"A", "x">>, <<"B", "y">>, <<"B">>, <<"A", "y", "x">> }

LoaderFiles ==
    { File(HeaderOf("income_tax"), ls) : ls \in SeqsUpTo(LoaderLines, MaxRows) }

DefaultFile(k) ==
    CASE k = "budget"      -> BudgetFile
      [] k = "expenditure" -> ExpenditureFile
      [] k = "income_tax"  -> File(<<"Category", "Tax">>, << <<"A", "x">> >>)

\* ------------------------------------------------------------------- state

VARIABLES
    disk,             \* kind -> the file now on disk
    cache,            \* kind -> st.cache_data's entry for the loader
    pc,               \* the next step of the current run
    data,             \* kind -> the table the run loaded
    errors,           \* the st.error messages shown in the run
    loaded_from,      \* kind -> how the run got the table: "cache", "file", "raised"
    dataset_type,     \* line 55
    dropdown_options, \* the options of the tab's filter dropdown
    selected_index,   \* the option picked (0: there was none to pick)
    selected,         \* selected_budget_source / selected_item_group / selected_category
    filtered,         \* filtered_*_data, where the branch assigns it
    displayed,        \* the table st.dataframe shows
    axis_options,     \* the options of the x and y axis dropdowns
    fig,              \* the chart built
    question,         \* line 172
    requests,         \* the payloads sent to the inference endpoint
    api_response,     \* what the endpoint did with the payload
    answer,           \* the answer written
    footer,           \* whether the footer was written
    steps,            \* the steps the run completed, in order
    fault             \* the unhandled exception that ended the run

vars == <<disk, cache, pc, data, errors, loaded_from, dataset_type,
          dropdown_options, selected_index, selected, filtered, displayed,
          axis_options, fig, question, requests, api_response, answer, footer,
          steps, fault>>

budget_data == data["budget"]
expenditure_data == data["expenditure"]
income_tax_data == data["income_tax"]

NoEntry == [hit |-> FALSE, value |-> EmptyDataFrame, messages |-> <<>>]
NoFig == [chart_type |-> None, x |-> None, y |-> None, data |-> EmptyDataFrame]
NoFault == "none"
NotLoaded == "-"
NoResponse == [raises |-> FALSE, result |-> [none |-> ""]]
NoTab == "-"

\* The state at the top of the script.
RunStart ==
    /\ pc = "setup"
    /\ data = [k \in Kinds |-> EmptyDataFrame]
    /\ errors = <<>>
    /\ loaded_from = [k \in Kinds |-> NotLoaded]
    /\ dataset_type = None
    /\ dropdown_options = <<>>
    /\ selected_index = 0
    /\ selected = None
    /\ filtered = EmptyDataFrame
    /\ displayed = EmptyDataFrame
    /\ axis_options = <<>>
    /\ fig = NoFig
    /\ question = ""
    /\ requests = <<>>
    /\ api_response = NoResponse
    /\ answer = None
    /\ footer = FALSE
    /\ steps = <<>>
    /\ fault = NoFault

Init ==
    /\ disk \in [Kinds -> UNION {FilesOf(k) : k \in Kinds}]
    /\ \A k \in Kinds : disk[k] \in FilesOf(k)
    /\ cache = [k \in Kinds |-> NoEntry]
    /\ RunStart

\* One kind's file is any file of the table family, the others are fixed.
InitTables ==
    /\ \E k \in Kinds : \E f \in TableFilesOf(k) :
          disk = [j \in Kinds |-> IF j = k THEN f ELSE DefaultFile(j)]
    /\ cache = [k \in Kinds |-> NoEntry]
    /\ RunStart

\* ----------------------------------------------------------------- helpers

\* An exception nothing catches: the run ends where it is.
Abort(f) == pc' = "aborted" /\ fault' = f
Completed(step) == steps' = Append(steps, [step |-> step, tab |-> NoTab])
CompletedIn(k, step) == steps' = Append(steps, [step |-> step, tab |-> k])
Done(step) == \E i \in 1..Len(steps) : steps[i].step = step

\* st.selectbox: one of the options, or None when there is none.
SelectboxChoices(options) == IF options = <<>> THEN {0} ELSE 1..Len(options)
Selectbox(options, i) == IF i = 0 THEN None ELSE options[i]

\* A lookup that never finds the key.
dict_get_never_found(d, key, default) == default

\* dict.get(key, default)
dict_get(d, key, default) == IF key \in DOMAIN d THEN d[key] ELSE default

\* A question section that runs whatever the text.
TruthyAlways(text) == TRUE

\* Python's truth value of a string.
Truthy(text) == text # ""

TabVars == <<dataset_type, dropdown_options, selected_index, selected, filtered,
             displayed, axis_options, fig>>
AskVars == <<question, requests, api_response, answer, footer>>

\* ------------------------------------------------------------------- setup

\* st.set_page_config and the InferenceApi client, built at the top of every
\* run.  The constructor looks the model up on the Hub and may raise: ok is
\* its outcome.
HuggingFaceApiSetup ==
    /\ pc = "setup"
    /\ \E ok \in BOOLEAN :
          IF ok
          THEN pc' = "load_budget" /\ Completed("setup") /\ UNCHANGED fault
          ELSE Abort("setup") /\ UNCHANGED steps
    /\ UNCHANGED <<disk, cache, data, errors, loaded_from, TabVars, AskVars>>

\* ----------------------------------------------------------------- loaders

\* A loader without memoization.
CacheNeverHit(k) == FALSE

\* @st.cache_data: the loader has an entry once it has returned.
CacheHit(k) == cache[k].hit

\* A call of a memoized loader.  On a hit the stored value is returned and the
\* stored st.error messages are shown again; otherwise the file is read, and the
\* value is stored if the loader returns.  guarded: the read is inside
\* try/except, which shows the error and returns an empty frame.
CachedLoad(k, on_bad_lines, guarded, step, next) ==
    IF CacheHit(k)
    THEN /\ data' = [data EXCEPT ![k] = cache[k].value]
         /\ errors' = errors \o cache[k].messages
         /\ loaded_from' = [loaded_from EXCEPT ![k] = "cache"]
         /\ pc' = next
         /\ Completed(step)
         /\ UNCHANGED <<cache, fault>>
    ELSE IF read_csv_raises(disk[k], on_bad_lines)
    THEN /\ loaded_from' = [loaded_from EXCEPT ![k] = "raised"]
         /\ IF guarded
            THEN LET e == [hit |-> TRUE, value |-> EmptyDataFrame,
                           messages |-> <<"Error loading Income Tax Data">>]
                 IN  /\ cache' = [cache EXCEPT ![k] = e]
                     /\ data' = [data EXCEPT ![k] = e.value]
                     /\ errors' = errors \o e.messages
                     /\ pc' = next
                     /\ Completed(step)
                     /\ UNCHANGED fault
            ELSE /\ Abort(step)
                 /\ UNCHANGED <<cache, data, errors, steps>>
    ELSE LET e == [hit |-> TRUE, value |-> read_csv(disk[k], on_bad_lines),
                   messages |-> <<>>]
         IN  /\ cache' = [cache EXCEPT ![k] = e]
             /\ data' = [data EXCEPT ![k] = e.value]
             /\ loaded_from' = [loaded_from EXCEPT ![k] = "file"]
             /\ pc' = next
             /\ Completed(step)
             /\ UNCHANGED <<errors, fault>>

\* A budget loader with the income-tax loader's try/except.
load_budget_data_guarded ==
    /\ pc = "load_budget"
    /\ CachedLoad("budget", "error", TRUE, "load_budget", "load_expenditure")
    /\ UNCHANGED <<disk, TabVars, AskVars>>

load_budget_data ==
    /\ pc = "load_budget"
    /\ CachedLoad("budget", "error", FALSE, "load_budget", "load_expenditure")
    /\ UNCHANGED <<disk, TabVars, AskVars>>

load_expenditure_data ==
    /\ pc = "load_expenditure"
    /\ CachedLoad("expenditure", "error", FALSE, "load_expenditure", "load_income_tax")
    /\ UNCHANGED <<disk, TabVars, AskVars>>

load_income_tax_data ==
    /\ pc = "load_income_tax"
    /\ CachedLoad("income_tax", "skip", TRUE, "load_income_tax", "dataset_type")
    /\ UNCHANGED <<disk, TabVars, AskVars>>

\* -------------------------------------------------------------- the layout

\* The title, the welcome text and the dataset type dropdown.
SelectDatasetType ==
    /\ pc = "dataset_type"
    /\ \E i \in SelectboxChoices(DatasetTypes) :
          dataset_type' = Selectbox(DatasetTypes, i)
    /\ pc' = "dropdown"
    /\ Completed("dataset_type")
    /\ UNCHANGED <<disk, cache, data, errors, loaded_from, dropdown_options,
                   selected_index, selected, filtered, displayed, axis_options,
                   fig, AskVars, fault>>

\* ---------------------------------------------------------- the Budget tab

\* budget_data["Source"].dropna().unique() and the source dropdown.
BudgetDropdown ==
    /\ pc = "dropdown"
    /\ dataset_type = "Budget Data"
    /\ IF ~HasColumn(budget_data, "Source")
       THEN /\ Abort("KeyError")
            /\ UNCHANGED <<dropdown_options, selected_index, selected, steps>>
       ELSE LET budget_sources ==
                    dropna_unique(budget_data, ColIndex(budget_data, "Source"))
            IN  /\ dropdown_options' = budget_sources
                /\ \E i \in SelectboxChoices(budget_sources) :
                      /\ selected_index' = i
                      /\ selected' = Selectbox(budget_sources, i)
                /\ pc' = "filter"
                /\ CompletedIn("budget", "dropdown")
                /\ UNCHANGED fault
    /\ UNCHANGED <<disk, cache, data, errors, loaded_from, dataset_type, filtered,
                   displayed, axis_options, fig, AskVars>>

\* filtered_budget_data and its st.dataframe.
BudgetFilter ==
    /\ pc = "filter"
    /\ dataset_type = "Budget Data"
    /\ LET filtered_budget_data ==
               MaskRows(budget_data, ColIndex(budget_data, "Source"), selected)
       IN  /\ filtered' = filtered_budget_data
           /\ displayed' = filtered_budget_data
    /\ pc' = "chart"
    /\ CompletedIn("budget", "filter")
    /\ UNCHANGED <<disk, cache, data, errors, loaded_from, dataset_type,
                   dropdown_options, selected_index, selected, axis_options, fig,
                   AskVars, fault>>

\* The chart type and axis dropdowns and the px.bar / px.line / px.pie call,
\* which may raise (plotly does not say when): ok is its outcome.
PlotChart(k, columns, data_to_plot, on_error) ==
    /\ axis_options' = columns
    /\ \E c \in SelectboxChoices(ChartTypes) :
       \E x \in SelectboxChoices(columns) :
       \E y \in SelectboxChoices(columns) :
       \E ok \in BOOLEAN :
          IF ok
          THEN /\ fig' = [chart_type |-> Selectbox(ChartTypes, c),
                          x |-> Selectbox(columns, x),
                          y |-> Selectbox(columns, y),
                          data |-> data_to_plot]
               /\ pc' = "question"
               /\ CompletedIn(k, "chart")
               /\ UNCHANGED fault
          ELSE /\ fig' = NoFig
               /\ pc' = on_error
               /\ fault' = "chart"
               /\ UNCHANGED steps

BudgetChart ==
    /\ pc = "chart"
    /\ dataset_type = "Budget Data"
    /\ PlotChart("budget", filtered.columns, filtered, "aborted")
    /\ UNCHANGED <<disk, cache, data, errors, loaded_from, dataset_type,
                   dropdown_options, selected_index, selected, filtered, displayed,
                   AskVars>>

\* ------------------------------------- the Expenditure and Income Tax tabs

\* The column names, then table[table.columns[0]].dropna().unique() behind the
\* sentinel, and the dropdown.  columns[0] of a frame without columns raises.
SentinelDropdown(k) ==
    /\ pc = "dropdown"
    /\ IF data[k].columns = <<>>
       THEN /\ Abort("IndexError")
            /\ UNCHANGED <<dropdown_options, selected_index, selected, steps>>
       ELSE LET item_groups == dropna_unique(data[k], 1)
                options == <<ShowFullTable>> \o item_groups
            IN  /\ dropdown_options' = options
                /\ \E i \in SelectboxChoices(options) :
                      /\ selected_index' = i
                      /\ selected' = Selectbox(options, i)
                /\ pc' = "filter"
                /\ CompletedIn(k, "dropdown")
                /\ UNCHANGED fault
    /\ UNCHANGED <<disk, cache, data, errors, loaded_from, dataset_type, filtered,
                   displayed, axis_options, fig, AskVars>>

\* The full table under the sentinel, else the filtered rows.
SentinelFilter(k) ==
    /\ pc = "filter"
    /\ IF selected = ShowFullTable
       THEN /\ displayed' = data[k]
            /\ UNCHANGED filtered
       ELSE /\ filtered' = MaskRows(data[k], 1, selected)
            /\ displayed' = filtered'
    /\ pc' = "chart"
    /\ CompletedIn(k, "filter")
    /\ UNCHANGED <<disk, cache, data, errors, loaded_from, dataset_type,
                   dropdown_options, selected_index, selected, axis_options, fig,
                   AskVars, fault>>

\* A chart of the whole table, whatever was picked.
data_to_plot_full(k) == data[k]

data_to_plot(k) == IF selected = ShowFullTable THEN data[k] ELSE filtered

SentinelChart(k, on_error) ==
    /\ pc = "chart"
    /\ PlotChart(k, data[k].columns, data_to_plot(k), on_error)
    /\ UNCHANGED <<disk, cache, data, errors, loaded_from, dataset_type,
                   dropdown_options, selected_index, selected, filtered, displayed,
                   AskVars>>

ExpenditureDropdown == dataset_type = "Expenditure Data" /\ SentinelDropdown("expenditure")
ExpenditureFilter == dataset_type = "Expenditure Data" /\ SentinelFilter("expenditure")
ExpenditureChart == dataset_type = "Expenditure Data" /\ SentinelChart("expenditure", "aborted")

IncomeTaxDropdown == dataset_type = "Income Tax Data" /\ SentinelDropdown("income_tax")
IncomeTaxFilter == dataset_type = "Income Tax Data" /\ SentinelFilter("income_tax")
\* A chart error that is swallowed: the script goes on to the question.
IncomeTaxChartCaught ==
    dataset_type = "Income Tax Data" /\ SentinelChart("income_tax", "question")

IncomeTaxChart == dataset_type = "Income Tax Data" /\ SentinelChart("income_tax", "aborted")

\* ------------------------------------------------- question and prediction

Questions == {"", "total budget?"}

\* What api(payload) does: raise, or return a mapping with or without "answer".
Responses ==
    { [raises |-> FALSE, result |-> [answer |-> "42", score |-> "0.9"]],
      [raises |-> FALSE, result |-> [error |-> "Model is loading"]],
      [raises |-> TRUE,  result |-> [error |-> "ConnectionError"]] }

\* The text input; without a question the script goes on to the footer.
AskQuestion ==
    /\ pc = "question"
    /\ \E q \in Questions :
          /\ question' = q
          /\ IF Truthy(q)
             THEN pc' = "remote" /\ UNCHANGED footer
             ELSE pc' = "done" /\ footer' = TRUE
    /\ Completed("question")
    /\ UNCHANGED <<disk, cache, data, errors, loaded_from, TabVars, requests,
                   api_response, answer, fault>>

\* A context made of the table the tab displays instead of the tab's table.
all_data_of_view ==
    pd_concat(IF dataset_type = "Budget Data" THEN displayed ELSE budget_data,
              IF dataset_type = "Expenditure Data" THEN displayed ELSE expenditure_data,
              IF dataset_type = "Income Tax Data" THEN displayed ELSE income_tax_data)

all_data == pd_concat(budget_data, expenditure_data, income_tax_data)

\* query_hf_api up to the call: the payload handed to api.
query_hf_api_payload(q, context) ==
    [inputs |-> [question |-> q, context |-> context]]

\* query_hf_api after the call: the answer field of the result, or the default.
query_hf_api_return(result) == dict_get(result, "answer", NoAnswerFound)

\* The context is built and the payload goes out; the script then waits for
\* the endpoint.
SendRequest ==
    /\ pc = "remote"
    /\ LET context == to_string(all_data)
       IN  requests' = Append(requests, query_hf_api_payload(question, context))
    /\ pc' = "awaiting"
    /\ Completed("request")
    /\ UNCHANGED <<disk, cache, data, errors, loaded_from, TabVars, question,
                   api_response, answer, footer, fault>>

\* The call returns or raises; on a return the answer line and the footer
\* are written.
ReceiveResponse ==
    /\ pc = "awaiting"
    /\ \E response \in Responses :
          /\ api_response' = response
          /\ IF response.raises
             THEN /\ Abort("remote")
                  /\ UNCHANGED <<answer, footer, steps>>
             ELSE /\ answer' = query_hf_api_return(response.result)
                  /\ footer' = TRUE
                  /\ pc' = "done"
                  /\ Completed("answer")
                  /\ UNCHANGED fault
    /\ UNCHANGED <<disk, cache, data, errors, loaded_from, TabVars, question,
                   requests>>

\* ---------------------------------------------------------------- the runs

\* A user interaction: the script runs again from the top; only the cache stays.
Rerun ==
    /\ pc \in {"done", "aborted"}
    /\ pc' = "setup"
    /\ data' = [k \in Kinds |-> EmptyDataFrame]
    /\ errors' = <<>>
    /\ loaded_from' = [k \in Kinds |-> NotLoaded]
    /\ dataset_type' = None
    /\ dropdown_options' = <<>>
    /\ selected_index' = 0
    /\ selected' = None
    /\ filtered' = EmptyDataFrame
    /\ displayed' = EmptyDataFrame
    /\ axis_options' = <<>>
    /\ fig' = NoFig
    /\ question' = ""
    /\ requests' = <<>>
    /\ api_response' = NoResponse
    /\ answer' = None
    /\ footer' = FALSE
    /\ steps' = <<>>
    /\ fault' = NoFault
    /\ UNCHANGED <<disk, cache>>

\* A file is replaced, removed or restored on disk, at any moment.
FileChange ==
    /\ \E k \in Kinds : \E f \in FilesOf(k) \ {disk[k]} :
          disk' = [disk EXCEPT ![k] = f]
    /\ UNCHANGED <<cache, pc, data, errors, loaded_from, TabVars, AskVars, steps,
                   fault>>

Step ==
    \/ HuggingFaceApiSetup
    \/ load_budget_data
    \/ load_expenditure_data
    \/ load_income_tax_data
    \/ SelectDatasetType
    \/ BudgetDropdown
    \/ BudgetFilter
    \/ BudgetChart
    \/ ExpenditureDropdown
    \/ ExpenditureFilter
    \/ ExpenditureChart
    \/ IncomeTaxDropdown
    \/ IncomeTaxFilter
    \/ IncomeTaxChart
    \/ AskQuestion
    \/ SendRequest
    \/ ReceiveResponse

Next == Step \/ Rerun \/ FileChange

\* The income-tax file is any file of the loader family, the others are fixed.
InitLoader ==
    /\ \E f \in LoaderFiles :
          disk = [j \in Kinds |-> IF j = "income_tax" THEN f ELSE DefaultFile(j)]
    /\ cache = [k \in Kinds |-> NoEntry]
    /\ RunStart

\* One run, from the top of the script to its end.
NextTables == Step

\* The script over the three files as they come and go.
Spec == Init /\ [][Next]_vars

\* The script over every table of the family.
SpecTables == InitTables /\ [][NextTables]_vars

\* The script over every income-tax file of the loader family.
SpecLoader == InitLoader /\ [][NextTables]_vars

\* ------------------------------------------------------------------ claims

\* The kind of table behind the selected dataset type.
TabKind ==
    CASE dataset_type = "Budget Data"      -> "budget"
      [] dataset_type = "Expenditure Data" -> "expenditure"
      [] dataset_type = "Income Tax Data"  -> "income_tax"
      [] OTHER                             -> NoTab

\* The filter column of a tab: "Source" for Budget, else the first column.
FilterColumn(k) == IF k = "budget" THEN ColIndex(data[k], "Source") ELSE 1

\* The dropdown entry that is the sentinel: the first one, except in Budget.
SentinelPicked == TabKind # "budget" /\ selected_index = 1

\* The rows of a table whose filter column holds the value, in table order.
RowsHolding(k, value) ==
    SelectSeq(data[k].rows, LAMBDA r : r[FilterColumn(k)] = value)

\* C1: once the tab has filtered, the view shown is the whole table when the
\* sentinel entry was picked, and otherwise exactly the rows whose filter
\* column equals the picked value, in order, duplicates kept, rows unchanged --
\* also when the picked data value is the text "Show Full Table".
C1_ViewIsRowsOfPickedValue ==
    Done("filter") =>
        /\ displayed.columns = data[TabKind].columns
        /\ displayed.rows = IF SentinelPicked
                            THEN data[TabKind].rows
                            ELSE RowsHolding(TabKind, selected)

\* C2: the value a tab filters by is the sentinel or occurs in at least one
\* row of the tab's filter column, whatever the table (an empty one, one whose
\* filter column is all missing).
C2_FilterValueOccurs ==
    Done("dropdown") =>
        \/ selected = ShowFullTable
        \/ RowsHolding(TabKind, selected) # <<>>

\* C3: the remote call sends exactly one payload {inputs: {question, context}};
\* the answer shown is the response's answer field when it has one and the
\* fixed fallback when it has none; when the call raises the run is aborted
\* with no answer shown.  Before the call nothing was sent, and while the call
\* is pending no answer is shown.
C3_QueryHfApi ==
    /\ Len(requests) <= 1
    /\ requests = <<>> <=> ~Done("request")
    /\ api_response = NoResponse => answer = None
    /\ api_response # NoResponse => Len(requests) = 1
    /\ requests # <<>> =>
        /\ DOMAIN requests[1] = {"inputs"}
        /\ DOMAIN requests[1].inputs = {"question", "context"}
        /\ requests[1].inputs.question = question
        /\ api_response # NoResponse /\ api_response.raises =>
              pc = "aborted" /\ fault = "remote" /\ answer = None
        /\ api_response # NoResponse /\ ~api_response.raises /\ "answer" \in DOMAIN api_response.result =>
              answer = api_response.result.answer
        /\ api_response # NoResponse /\ ~api_response.raises /\ "answer" \notin DOMAIN api_response.result =>
              answer = NoAnswerFound

C3_FallbackShown ==
    /\ pc = "done"
    /\ ~api_response.raises
    /\ "answer" \notin DOMAIN api_response.result
    /\ api_response # NoResponse
    /\ answer = NoAnswerFound

\* C4: a failed read in load_income_tax_data shows an error message, yields
\* the empty table and lets the run go on; a failed read in load_budget_data
\* or load_expenditure_data ends the run in the loader.
C4_OnlyIncomeTaxLoaderGuarded ==
    /\ loaded_from["income_tax"] = "raised" =>
          /\ errors # <<>>
          /\ income_tax_data = EmptyDataFrame
          /\ Done("load_income_tax")
          /\ fault # "load_income_tax"
    /\ loaded_from["budget"] = "raised" =>
          /\ pc = "aborted"
          /\ fault = "load_budget"
          /\ ~Done("load_budget")
          /\ errors = <<>>
    /\ loaded_from["expenditure"] = "raised" =>
          /\ pc = "aborted"
          /\ fault = "load_expenditure"
          /\ ~Done("load_expenditure")
          /\ errors = <<>>

C4_RunWentOnAfterFallback ==
    /\ loaded_from["income_tax"] = "raised"
    /\ errors # <<>>
    /\ pc = "done"

\* The well-formed lines of a file: those with as many fields as the header.
WellFormedRows(file) ==
    SelectSeq(file.lines, LAMBDA l : Len(l) = Len(file.header))

\* C5: the table load_income_tax_data parses from a file holds exactly the
\* file's well-formed lines, in file order, under the header's columns, and
\* the loader raises nothing.
C5_OnlyWellFormedRows ==
    /\ fault # "load_income_tax"
    /\ loaded_from["income_tax"] = "file" =>
          /\ income_tax_data.columns = disk["income_tax"].header
          /\ income_tax_data.rows = WellFormedRows(disk["income_tax"])

\* C6: a loader with a cache entry never reads its file again and its entry
\* never changes, whatever happens to the file; a run that finds the entry
\* gets exactly the stored table (the stored empty table of the income-tax
\* fallback too); and no step of a run changes a table the run has loaded.
C6_LoadedOnce ==
    [][\A k \in Kinds :
          /\ cache[k].hit => cache'[k] = cache[k]
          /\ cache[k].hit /\ loaded_from'[k] # loaded_from[k] =>
                loaded_from'[k] \in {"cache", NotLoaded}
          /\ loaded_from'[k] = "cache" => data'[k] = cache[k].value
          /\ loaded_from[k] # NotLoaded /\ loaded_from'[k] # NotLoaded =>
                data'[k] = data[k]]_vars

\* A later run holds the fallback's empty table although the file is back.
C6_StaleFallbackTable ==
    /\ loaded_from["income_tax"] = "cache"
    /\ income_tax_data = EmptyDataFrame
    /\ disk["income_tax"] = IncomeTaxFile
    /\ loaded_from["budget"] = "cache"
    /\ disk["budget"] # BudgetFile
    /\ budget_data = read_csv(BudgetFile, "error")
    /\ pc = "done"

\* C7: an unhandled fault ends the run where it occurs.  A failed budget or
\* expenditure load leaves no dropdown rendered, whatever tab would have been
\* picked; a missing "Source" column, a frame without a first column or a
\* failed chart leaves the question section unreached, nothing sent and no
\* answer; a failed remote call leaves no answer and no footer.
C7_FaultAbortsRun ==
    /\ (fault # NoFault) <=> (pc = "aborted")
    /\ fault \in {"load_budget", "load_expenditure"} =>
          /\ ~Done("dataset_type")
          /\ dataset_type = None
          /\ dropdown_options = <<>>
          /\ requests = <<>>
    /\ fault \in {"KeyError", "IndexError", "chart"} =>
          /\ ~Done("question")
          /\ requests = <<>>
          /\ answer = None
          /\ ~footer
    /\ fault = "remote" => answer = None /\ ~footer
    /\ fault = "setup" =>
          /\ steps = <<>>
          /\ \A k \in Kinds : loaded_from[k] = NotLoaded
          /\ requests = <<>>

C7_NoFirstColumnAborted ==
    /\ fault = "IndexError"
    /\ dataset_type = "Income Tax Data"
    /\ loaded_from["income_tax"] = "raised"
    /\ pc = "aborted"

\* The steps of a run, in script order, for the tab of kind k.
StepOrder(k) ==
    << [step |-> "setup", tab |-> NoTab],
       [step |-> "load_budget", tab |-> NoTab],
       [step |-> "load_expenditure", tab |-> NoTab],
       [step |-> "load_income_tax", tab |-> NoTab],
       [step |-> "dataset_type", tab |-> NoTab],
       [step |-> "dropdown", tab |-> k],
       [step |-> "filter", tab |-> k],
       [step |-> "chart", tab |-> k],
       [step |-> "question", tab |-> NoTab],
       [step |-> "request", tab |-> NoTab],
       [step |-> "answer", tab |-> NoTab] >>

IsPrefix(s, t) == Len(s) <= Len(t) /\ SubSeq(t, 1, Len(s)) = s

\* C8: the steps a run has completed are a prefix of the fixed order, with the
\* tab steps all of the one selected tab; at most one payload is sent in a
\* run, only after the chart step and only for a non-empty question.
C8_LinearRun ==
    /\ \E k \in Kinds :
          /\ IsPrefix(steps, StepOrder(k))
          /\ Done("dataset_type") => k = TabKind
    /\ Len(requests) <= 1
    /\ requests # <<>> => Done("chart") /\ question # ""
    /\ question = "" => requests = <<>> /\ ~Done("request")

C8_OneCallAfterChart ==
    /\ pc = "done"
    /\ Len(requests) = 1
    /\ Done("answer")
    /\ dataset_type = "Expenditure Data"

\* The offset of each table's rows in the concatenation.
RowOffset(k) ==
    CASE k = "budget"      -> 0
      [] k = "expenditure" -> Len(budget_data.rows)
      [] k = "income_tax"  -> Len(budget_data.rows) + Len(expenditure_data.rows)

\* C9: the context sent holds one line per row of the three complete loaded
\* tables, budget first, then expenditure, then income tax, each cell under
\* its column's name, whatever tab, filter value, chart type and axes were
\* picked; the question sent is the question asked.
C9_ContextIsAllTables ==
    requests # <<>> =>
        LET ctx == requests[1].inputs.context
        IN  /\ requests[1].inputs.question = question
            /\ Len(ctx) = 1 + Len(budget_data.rows) + Len(expenditure_data.rows)
                            + Len(income_tax_data.rows)
            /\ \A k \in Kinds :
               \A i \in 1..Len(data[k].rows) :
               \A j \in 1..Len(data[k].columns) :
                  \E c \in 1..Len(ctx[1]) :
                     /\ ctx[1][c] = data[k].columns[j]
                     /\ ctx[1 + RowOffset(k) + i][c] = CellText(data[k].rows[i][j])

\* A payload went out in a run whose tab showed fewer rows than its table has.
C9_SentUnderNarrowingFilter ==
    /\ requests # <<>>
    /\ Done("filter")
    /\ Len(displayed.rows) < Len(data[TabKind].rows)
    /\ displayed.rows # <<>>

\* C10: the chart is built from exactly the table the run displays, and the
\* axis dropdowns offer exactly that table's columns.
C10_ChartOfDisplayedRows ==
    Done("chart") =>
        /\ fig.data = displayed
        /\ axis_options = displayed.columns
        /\ \E j \in 1..Len(displayed.columns) : fig.x = displayed.columns[j]
        /\ \E j \in 1..Len(displayed.columns) : fig.y = displayed.columns[j]

\* The three-row budget table with sources A and B, source A picked: the bar
\* chart holds the two A rows.
C10_BudgetSourceACharted ==
    /\ Done("chart")
    /\ dataset_type = "Budget Data"
    /\ budget_data.rows = << <<"A", "x">>, <<"B", "y">>, <<"A", "y">> >>
    /\ selected = "A"
    /\ fig.chart_type = "Bar Chart"
    /\ fig.data.rows = << <<"A", "x">>, <<"A", "y">> >>

====
